---- MODULE Spec2Model ----
(***************************************************************************)
(* Model of limiter.py: one cron-started run samples the client's          *)
(* cumulative transfer counters, evaluates the configured daily / weekly / *)
(* monthly windows against the time_slice table, switches the client's     *)
(* alt-speed flag, stores a new time slice and optionally clears old ones. *)
(*                                                                         *)
(* Time is counted in hours since 00:00 UTC on the first day of a 31-day   *)
(* month (the calendar is Dec, Jan, Feb, Mar with Jan starting at hour 0). *)
(* A datetime is a record [t, us, off]: t the UTC instant in hours, us the *)
(* microsecond field (0, or 1 standing for any non-zero value), off the    *)
(* UTC offset of its tzinfo in hours.                                      *)
(***************************************************************************)
EXTENDS Integers, Sequences, FiniteSets, TLC

VARIABLES
    tz,          \* UTC offset of the machine's local time zone, in hours
    args,        \* parsed command line: daily_limit, weekly_limit, monthly_limit, clear_old_data
    clock,       \* wall clock of the machine (UTC instant, hours)
    stats,       \* the client's cumulative-stats: downloadedBytes, uploadedBytes
    alt_speed,   \* the client's alt_speed_enabled flag
    table,       \* rows of the time_slice table: [timestamp, data_usage]
    run,         \* per process: position in main() and main()'s locals
    due,         \* cron's next firing is due
    nruns,       \* number of runs started so far
    unpruned,    \* history: the table as the same runs leave it when none deletes
    parse        \* a call of parse_size: its arguments and its result

vars == <<tz, args, clock, stats, alt_speed, table, run, due, nruns, unpruned, parse>>

(***************************************************************************)
(* Bounds of the model.                                                    *)
(***************************************************************************)
MaxRuns == 3
MaxUsage == 40
MaxClock == 722

\* argparse leaves an option that was not given as None
None == -1

Procs == {1, 2}

(***************************************************************************)
(* Time: timedelta arguments in hours.                                     *)
(***************************************************************************)
Day == 24
Week == 168
FourWeeks == 672
ThirtyDays == 720

\* local wall-clock hours at which a calendar month starts (Dec, Jan, Feb, Mar)
MonthStarts == {-744, 0, 744, 1416}

\* datetime.replace(day=1, hour=0, minute=0, second=0, microsecond=0) on a
\* local wall-clock value
StartOfMonth(wall) ==
    CHOOSE m \in MonthStarts :
        /\ m <= wall
        /\ \A m2 \in MonthStarts : m2 <= wall => m2 <= m

\* datetime.now(timezone.utc) read at clock value c with microsecond field us
UtcNow(c, us) == [t |-> c, us |-> us, off |-> 0]

\* datetime.now().astimezone().replace(day=1, hour=0, minute=0, second=0,
\* microsecond=0) read at clock value c in a zone with UTC offset z
FirstOfTheMonth(c, z) == [t |-> StartOfMonth(c + z) - z, us |-> 0, off |-> z]

\* datetime - timedelta
Minus(d, hours) == [d EXCEPT !.t = @ - hours]

\* comparison of two aware datetimes: by instant
DtLess(a, b) == a.t < b.t \/ (a.t = b.t /\ a.us < b.us)

\* no clamp: the second argument whatever the first
PyMaxSecond(a, b) == b

\* Python's max(a, b): b only when it is strictly greater
PyMax(a, b) == IF DtLess(a, b) THEN b ELSE a

(***************************************************************************)
(* Text of a datetime as sqlite3 stores and compares it:                   *)
(* datetime.isoformat(" ") = "YYYY-MM-DD HH:MM:SS[.ffffff]+HH:MM".         *)
(* The text is a sequence of numbers whose lexicographic order is the      *)
(* order of the characters: the 19 wall-clock characters as the wall-clock *)
(* hour count, "." as 46, "+" as 43, "-" as 45, digit groups as their      *)
(* value.                                                                  *)
(***************************************************************************)
Abs(n) == IF n < 0 THEN -n ELSE n
SignChar(off) == IF off < 0 THEN 45 ELSE 43

IsoFormat(d) ==
    IF d.us = 0
    THEN <<d.t + d.off, SignChar(d.off), Abs(d.off)>>
    ELSE <<d.t + d.off, 46, d.us, SignChar(d.off), Abs(d.off)>>

RECURSIVE TextLess(_, _)
\* SQLite's BINARY collation on two TEXT values
TextLess(a, b) ==
    IF b = <<>> THEN FALSE
    ELSE IF a = <<>> THEN TRUE
    ELSE IF Head(a) # Head(b) THEN Head(a) < Head(b)
    ELSE TextLess(Tail(a), Tail(b))

\* datetime.strptime(text, '%Y-%m-%d %H:%M:%S.%f%z') raises ValueError on a
\* text without the fractional part
StrptimeFails(text) == Len(text) # 5

(***************************************************************************)
(* Sizes.  data_units maps a unit letter to a power of 1024; the model     *)
(* keeps the exponent, so that 2**40 needs no 64-bit arithmetic.           *)
(***************************************************************************)
data_units ==
    << [letter |-> "b", power |-> 0], [letter |-> "k", power |-> 1],
       [letter |-> "m", power |-> 2], [letter |-> "g", power |-> 3],
       [letter |-> "t", power |-> 4] >>

\* str.upper() on a unit letter
Upper(c) ==
    CASE c = "b" -> "B" [] c = "k" -> "K" [] c = "m" -> "M"
      [] c = "g" -> "G" [] c = "t" -> "T" [] OTHER -> c

RECURSIVE AtLeastOne(_, _)
\* byte_amount / 1024**power >= 1
AtLeastOne(byte_amount, power) ==
    IF byte_amount < 1 THEN FALSE
    ELSE IF power = 0 THEN TRUE
    ELSE AtLeastOne(byte_amount \div 1024, power - 1)

\* byte_amount / 1024**p1 < byte_amount / 1024**p2
ValLess(byte_amount, p1, p2) ==
    \/ byte_amount > 0 /\ p1 > p2
    \/ byte_amount < 0 /\ p1 < p2

RECURSIVE PrettyLoop(_, _, _)
\* the loop of pretty_print_bytes from unit i on; min_val is kept as the
\* index of the unit that produced it, 0 for None
PrettyLoop(byte_amount, i, min_unit) ==
    IF i > Len(data_units) THEN min_unit
    ELSE IF min_unit = 0
            \/ (ValLess(byte_amount, data_units[i].power, data_units[min_unit].power)
                  /\ AtLeastOne(byte_amount, data_units[i].power))
         THEN PrettyLoop(byte_amount, i + 1, i)
         ELSE PrettyLoop(byte_amount, i + 1, min_unit)

\* pretty_print_bytes: the quotient byte_amount / 1024**power that is
\* printed with two decimals, and the upper-case unit letter after it
pretty_print_bytes(byte_amount) ==
    LET u == data_units[PrettyLoop(byte_amount, 1, 0)]
    IN  [amount |-> byte_amount, power |-> u.power, unit |-> Upper(u.letter)]

\* seconds of the time units
time_units ==
    << [letter |-> "m", seconds |-> 60], [letter |-> "h", seconds |-> 3600],
       [letter |-> "d", seconds |-> 86400], [letter |-> "w", seconds |-> 604800] >>

(***************************************************************************)
(* parse_size.  A string is a sequence of one-character strings.  Python's *)
(* integers are unbounded: a number is a sequence of base-1024 digits,     *)
(* most significant first.  The float of the code is kept as the exact     *)
(* decimal [mant, dec] = mant / 10**dec.                                   *)
(***************************************************************************)
IsDigit(c) == c \in {"0", "1", "2", "3", "4", "5", "6", "7", "8", "9"}

DigitValue(c) ==
    CASE c = "0" -> 0 [] c = "1" -> 1 [] c = "2" -> 2 [] c = "3" -> 3
      [] c = "4" -> 4 [] c = "5" -> 5 [] c = "6" -> 6 [] c = "7" -> 7
      [] c = "8" -> 8 [] c = "9" -> 9

\* str.lower() on one character
Lower(c) ==
    CASE c = "B" -> "b" [] c = "K" -> "k" [] c = "M" -> "m" [] c = "G" -> "g"
      [] c = "T" -> "t" [] c = "H" -> "h" [] c = "D" -> "d" [] c = "W" -> "w"
      [] OTHER -> c

RECURSIVE Pow10(_)
Pow10(n) == IF n = 0 THEN 1 ELSE 10 * Pow10(n - 1)

RECURSIVE DecimalValue(_)
\* the integer a sequence of digit characters writes
DecimalValue(digits) ==
    IF digits = <<>> THEN 0
    ELSE 10 * DecimalValue(SubSeq(digits, 1, Len(digits) - 1))
           + DigitValue(digits[Len(digits)])

\* float(text) for a text of digits and points: ValueError on more than one
\* point or no digit
Float(text) ==
    LET points == {i \in DOMAIN text : text[i] = "."}
        digits == SelectSeq(text, IsDigit)
    IN  IF Cardinality(points) > 1 \/ digits = <<>>
        THEN [raises |-> "ValueError", mant |-> 0, dec |-> 0]
        ELSE [raises |-> "", mant |-> DecimalValue(digits),
              dec |-> IF points = {} THEN 0
                      ELSE Len(text) - (CHOOSE i \in points : TRUE)]

RECURSIVE ToDigits(_)
\* a natural number in base 1024
ToDigits(n) == IF n < 1024 THEN <<n>> ELSE Append(ToDigits(n \div 1024), n % 1024)

RECURSIVE Normalize(_)
\* without leading zero digits
Normalize(ds) ==
    IF Len(ds) > 1 /\ ds[1] = 0 THEN Normalize(Tail(ds)) ELSE ds

RECURSIVE MulCarry(_, _, _)
\* ds * m + carry
MulCarry(ds, m, carry) ==
    IF ds = <<>> THEN ToDigits(carry)
    ELSE LET v == ds[Len(ds)] * m + carry
         IN  Append(MulCarry(SubSeq(ds, 1, Len(ds) - 1), m, v \div 1024), v % 1024)

Mul(ds, m) == Normalize(MulCarry(ds, m, 0))

RECURSIVE DivLoop(_, _, _, _)
\* long division of ds by d from digit i on
DivLoop(ds, d, i, acc) ==
    IF i > Len(ds) THEN acc
    ELSE LET v == acc.rem * 1024 + ds[i]
         IN  DivLoop(ds, d, i + 1, [quot |-> Append(acc.quot, v \div d), rem |-> v % d])

\* quotient and remainder of ds by d
DivMod(ds, d) ==
    LET r == DivLoop(ds, d, 1, [quot |-> <<>>, rem |-> 0])
    IN  [quot |-> Normalize(r.quot), rem |-> r.rem]

RECURSIVE Pow1024(_)
Pow1024(power) == IF power = 0 THEN <<1>> ELSE Append(Pow1024(power - 1), 0)

\* the units of a metric as letter and multiplier
UnitsOf(metric) ==
    IF metric = "TIME"
    THEN [i \in DOMAIN time_units |->
             [letter |-> time_units[i].letter, size |-> ToDigits(time_units[i].seconds)]]
    ELSE [i \in DOMAIN data_units |->
             [letter |-> data_units[i].letter, size |-> Pow1024(data_units[i].power)]]

\* how a call ends: with a value, or with an exception
Returns(value) == [raises |-> "", value |-> value]
Raises(err) == [raises |-> err, value |-> <<>>]

\* the product rounded to the nearest integer, halves to the even one
parse_size_round(size, metric) ==
    LET lowered == [i \in DOMAIN size |-> Lower(size[i])]
        number == Float(SelectSeq(lowered, LAMBDA c : IsDigit(c) \/ c = "."))
        units == UnitsOf(metric)
        letters == {units[i].letter : i \in DOMAIN units}
        found == SelectSeq(lowered, LAMBDA c : c \in letters)
    IN  IF number.raises # "" THEN Raises("ValueError")
        ELSE IF metric \notin {"TIME", "DATA"} THEN Raises("ValueError")
        ELSE IF found = <<>> THEN Raises("ValueError")
        ELSE LET i == CHOOSE i \in DOMAIN units : units[i].letter = found[1]
                 d == DivMod(Mul(units[i].size, number.mant), Pow10(number.dec))
                 q == d.quot
                 up == 2 * d.rem > Pow10(number.dec)
                         \/ (2 * d.rem = Pow10(number.dec) /\ q[Len(q)] % 2 = 1)
             IN  Returns(IF up THEN Normalize(MulCarry(q, 1, 1)) ELSE q)

\* parse_size: the digits of int(number * units[unit]), or ValueError
parse_size(size, metric) ==
    LET lowered == [i \in DOMAIN size |-> Lower(size[i])]
        number == Float(SelectSeq(lowered, LAMBDA c : IsDigit(c) \/ c = "."))
        units == UnitsOf(metric)
        letters == {units[i].letter : i \in DOMAIN units}
        found == SelectSeq(lowered, LAMBDA c : c \in letters)
    IN  IF number.raises # "" THEN Raises("ValueError")
        ELSE IF metric \notin {"TIME", "DATA"} THEN Raises("ValueError")
        ELSE IF found = <<>> THEN Raises("ValueError")
        ELSE LET i == CHOOSE i \in DOMAIN units : units[i].letter = found[1]
             IN  Returns(DivMod(Mul(units[i].size, number.mant),
                                Pow10(number.dec)).quot)

(***************************************************************************)
(* The time_slice table (class TimeSlice) and its queries.                 *)
(***************************************************************************)
\* a row: the implicit integer primary key id, timestamp (stored as text),
\* data_usage
TimeSlice(id, timestamp, data_usage) ==
    [id |-> id, timestamp |-> IsoFormat(timestamp), data_usage |-> data_usage]

\* the id SQLite gives a new row: one more than the largest in the table
NextId(tbl) ==
    IF tbl = {} THEN 1
    ELSE 1 + (CHOOSE n \in {r.id : r \in tbl} : \A r \in tbl : r.id <= n)

\* TimeSlice.select().where(TimeSlice.timestamp < past_reference)
\*     .order_by(TimeSlice.timestamp.desc()).get()
\* as a set: empty for peewee.DoesNotExist, else the one row found
LatestBefore(tbl, past_reference) ==
    LET older == {r \in tbl : TextLess(r.timestamp, IsoFormat(past_reference))}
    IN  {r \in older : \A q \in older : ~TextLess(r.timestamp, q.timestamp)}

\* TimeSlice.select().order_by(TimeSlice.timestamp.asc()).get()
Earliest(tbl) ==
    {r \in tbl : \A q \in tbl : ~TextLess(q.timestamp, r.timestamp)}

\* the earliest row of the table whatever the reference time
EarliestSlice(tbl, past_reference) == Earliest(tbl)

\* the row should_throttle binds to past_slice (empty: table unpopulated)
PastSlice(tbl, past_reference) ==
    IF LatestBefore(tbl, past_reference) # {}
    THEN LatestBefore(tbl, past_reference)
    ELSE Earliest(tbl)

\* an empty table read as a past slice with usage 0
ShouldThrottleFromZero(tbl, past_reference, current_data_usage, usage_limit) ==
    LET found == PastSlice(tbl, past_reference)
        usage == IF found = {} THEN 0 ELSE (CHOOSE r \in found : TRUE).data_usage
    IN  IF found # {} /\ StrptimeFails((CHOOSE r \in found : TRUE).timestamp)
        THEN "ValueError"
        ELSE IF current_data_usage - usage > usage_limit THEN "True"
        ELSE "False"

\* should_throttle: "True", "False", or "ValueError" when strptime rejects
\* the stored timestamp of the past slice
ShouldThrottle(tbl, past_reference, current_data_usage, usage_limit) ==
    LET found == PastSlice(tbl, past_reference)
    IN  IF found = {} THEN "False"
        ELSE LET past_slice == CHOOSE r \in found : TRUE
                 delta == current_data_usage - past_slice.data_usage
             IN  IF StrptimeFails(past_slice.timestamp) THEN "ValueError"
                 ELSE IF delta > usage_limit THEN "True"
                 ELSE "False"

\* the arguments of usage_msg (lines 125-130) but the time: empty when the
\* function returns or raises before it
UsageMsg(tbl, past_reference, current_data_usage, usage_limit) ==
    LET found == PastSlice(tbl, past_reference)
    IN  IF found = {} THEN <<>>
        ELSE LET past_slice == CHOOSE r \in found : TRUE
                 delta == current_data_usage - past_slice.data_usage
                 over == IF delta - usage_limit > 0 THEN delta - usage_limit ELSE 0
             IN  IF StrptimeFails(past_slice.timestamp) THEN <<>>
                 ELSE << pretty_print_bytes(delta), pretty_print_bytes(over),
                         pretty_print_bytes(usage_limit) >>

\* TimeSlice.delete().where(TimeSlice.timestamp < first_of_the_month)
DeleteBefore(tbl, first_of_the_month) ==
    {r \in tbl : ~TextLess(r.timestamp, IsoFormat(first_of_the_month))}

(***************************************************************************)
(* The two peewee database objects of the program, both made for the same  *)
(* sqlite file: the one class TimeSlice is bound to (Meta.database) and    *)
(* the one main() makes and enters with "with db:".                        *)
(***************************************************************************)
MetaDatabase == "TimeSlice._meta.database"
MainDb == "db"

\* a statement as the run executes it: on the database the model class is
\* bound to, inside a transaction only when that database object is the one
\* whose "with" block the run is in (db_ctx counts the blocks entered)
Statement(op, db_ctx) ==
    [op |-> op, database |-> MetaDatabase,
     in_transaction |-> (MetaDatabase = MainDb /\ db_ctx > 0)]

\* the statements of one should_throttle call: the second select only after
\* peewee.DoesNotExist
SelectStatements(tbl, past_reference, db_ctx) ==
    IF LatestBefore(tbl, past_reference) # {}
    THEN <<Statement("select_latest_before", db_ctx)>>
    ELSE <<Statement("select_latest_before", db_ctx),
           Statement("select_earliest", db_ctx)>>

(***************************************************************************)
(* main(): the windows it evaluates, in the order of the calls.            *)
(***************************************************************************)
\* "if args.daily_limit:" - None and 0 both skip the block
Truthy(limit) == limit # None /\ limit # 0

DailyWindows(a, r) ==
    IF Truthy(a.daily_limit)
    THEN << [ref |-> r.one_day_ago,   limit |-> a.daily_limit],
            [ref |-> r.one_week_ago,  limit |-> a.daily_limit * 7],
            [ref |-> r.one_month_ago, limit |-> a.daily_limit * 30] >>
    ELSE <<>>

WeeklyWindows(a, r) ==
    IF Truthy(a.weekly_limit)
    THEN << [ref |-> r.one_week_ago,   limit |-> a.weekly_limit],
            [ref |-> r.four_weeks_ago, limit |-> a.weekly_limit * 4] >>
    ELSE <<>>

\* the monthly limit measured from one_week_ago
MonthlyWindowsFromWeek(a, r) ==
    IF Truthy(a.monthly_limit)
    THEN << [ref |-> r.one_week_ago, limit |-> a.monthly_limit] >>
    ELSE <<>>

MonthlyWindows(a, r) ==
    IF Truthy(a.monthly_limit)
    THEN << [ref |-> r.one_month_ago, limit |-> a.monthly_limit] >>
    ELSE <<>>

Windows(a, r) == DailyWindows(a, r) \o WeeklyWindows(a, r) \o MonthlyWindows(a, r)

(***************************************************************************)
(* State of one run of main().  Besides main()'s locals the record keeps   *)
(* what the run has done so far: the table it found, the should_throttle   *)
(* calls it made, its writes to the client and to the table, its calls of  *)
(* the RPC client (rpcs), the "with db:" blocks it is in (db_ctx) and the  *)
(* statements it executed on the store (ops).                              *)
(***************************************************************************)
NoTime == [t |-> 0, us |-> 0, off |-> 0]

IdleRun ==
    [ pc |-> "idle",
      error |-> "",
      current_data_usage |-> 0,
      now |-> NoTime,
      first_of_the_month |-> NoTime,
      one_day_ago |-> NoTime,
      one_week_ago |-> NoTime,
      four_weeks_ago |-> NoTime,
      one_month_ago |-> NoTime,
      is_throttled |-> FALSE,
      throttle |-> FALSE,
      calls |-> <<>>,
      table0 |-> {},
      alt_writes |-> <<>>,
      inserted |-> <<>>,
      deleted |-> {},
      rpcs |-> <<>>,
      db_ctx |-> 0,
      ops |-> <<>> ]

\* hours between two firings of cron in the model
Gaps == {3, 720}

\* bytes the client moves between two firings: <<downloaded, uploaded>>
Transfers == {<<1, 0>>, <<0, 4>>, <<31, 0>>}

\* no call of parse_size under observation
NoParse == [size |-> <<>>, metric |-> "DATA", called |-> FALSE, result |-> <<>>]

\* the command lines and time zones the model starts from
\* (a limit of 0 comes from a size such as "0g")
Limits ==
    [daily_limit : {None, 1}, weekly_limit : {None, 3},
     monthly_limit : {None, 5}, clear_old_data : BOOLEAN]
    \cup [daily_limit : {0}, weekly_limit : {None},
          monthly_limit : {None, 5}, clear_old_data : {TRUE}]

\* every command line in UTC; two command lines in a zone west and a zone
\* east of UTC
Setups ==
    {[tz |-> 0, args |-> a] : a \in Limits}
    \cup {[tz |-> z, args |-> a] :
            z \in {-5, 2},
            a \in {l \in Limits : l.daily_limit = 1 /\ l.weekly_limit = None}}

Init ==
    /\ \E s \in Setups : tz = s.tz /\ args = s.args
    /\ clock = -4
    /\ stats = [downloadedBytes |-> 0, uploadedBytes |-> 0]
    /\ alt_speed \in BOOLEAN
    /\ table = {}
    /\ run = [p \in Procs |-> IdleRun]
    /\ due = FALSE
    /\ nruns = 0
    /\ unpruned = {}
    /\ parse = NoParse

AllIdle == \A p \in Procs : run[p].pc = "idle"

(***************************************************************************)
(* The environment: time passes, the client transfers data, cron fires.    *)
(***************************************************************************)
Elapse(d, x) ==
    /\ AllIdle /\ ~due /\ nruns < MaxRuns
    /\ clock + d <= MaxClock
    /\ stats.downloadedBytes + stats.uploadedBytes + x[1] + x[2] <= MaxUsage
    /\ clock' = clock + d
    /\ stats' = [downloadedBytes |-> stats.downloadedBytes + x[1],
                 uploadedBytes |-> stats.uploadedBytes + x[2]]
    /\ due' = TRUE
    /\ UNCHANGED <<tz, args, alt_speed, table, run, nruns, unpruned, parse>>

\* the client's statistics are reset while nothing runs
ResetStats(d) ==
    /\ AllIdle /\ ~due /\ nruns < MaxRuns
    /\ clock + d <= MaxClock
    /\ stats.downloadedBytes + stats.uploadedBytes > 0
    /\ clock' = clock + d
    /\ stats' = [downloadedBytes |-> 0, uploadedBytes |-> 0]
    /\ due' = TRUE
    /\ UNCHANGED <<tz, args, alt_speed, table, run, nruns, unpruned, parse>>

\* the local month changes between main()'s two readings of the clock
MonthTurns(p) ==
    /\ run[p].pc = "first_of_the_month"
    /\ clock + 1 <= MaxClock
    /\ StartOfMonth(clock + 1 + tz) # StartOfMonth(clock + tz)
    /\ clock' = clock + 1
    /\ UNCHANGED <<tz, args, stats, alt_speed, table, run, due, nruns, unpruned, parse>>

(***************************************************************************)
(* main(), one action per step.                                            *)
(***************************************************************************)
\* parse_args(): ValueError unless one limit is truthy
ParseArgsFails(a) ==
    ~(Truthy(a.monthly_limit) \/ Truthy(a.weekly_limit) \/ Truthy(a.daily_limit))

\* the RPC client made and asked before the command line is checked
StartConnectsFirst(p) ==
    /\ run[p].pc = "idle" /\ due
    /\ run' = [run EXCEPT ![p] =
                 IF ParseArgsFails(args)
                 THEN [IdleRun EXCEPT !.pc = "failed", !.error = "ValueError",
                                      !.rpcs = <<"Client", "session_stats">>,
                                      !.table0 = table]
                 ELSE [IdleRun EXCEPT !.pc = "now", !.table0 = table,
                                      !.rpcs = <<"Client", "session_stats">>,
                                      !.current_data_usage =
                                          stats.downloadedBytes + stats.uploadedBytes]]
    /\ due' = FALSE
    /\ nruns' = nruns + 1
    /\ UNCHANGED <<tz, args, clock, stats, alt_speed, table, unpruned, parse>>

\* lines 143-159: parse_args, the RPC client, session_stats
Start(p) ==
    /\ run[p].pc = "idle" /\ due
    /\ run' = [run EXCEPT ![p] =
                 IF ParseArgsFails(args)
                 THEN [IdleRun EXCEPT !.pc = "failed", !.error = "ValueError",
                                      !.table0 = table]
                 ELSE [IdleRun EXCEPT !.pc = "now", !.table0 = table,
                                      !.rpcs = <<"Client", "session_stats">>,
                                      !.current_data_usage =
                                          stats.downloadedBytes + stats.uploadedBytes]]
    /\ due' = FALSE
    /\ nruns' = nruns + 1
    /\ UNCHANGED <<tz, args, clock, stats, alt_speed, table, unpruned, parse>>

ReadNow(p, us) ==
    /\ run[p].pc = "now"
    /\ run' = [run EXCEPT ![p].now = UtcNow(clock, us),
                          ![p].pc = "first_of_the_month"]
    /\ UNCHANGED <<tz, args, clock, stats, alt_speed, table, due, nruns, unpruned, parse>>

ReferenceTimes(p) ==
    /\ run[p].pc = "first_of_the_month"
    /\ LET first_of_the_month == FirstOfTheMonth(clock, tz)
           now == run[p].now
       IN  run' = [run EXCEPT
                ![p].first_of_the_month = first_of_the_month,
                ![p].one_day_ago = PyMax(first_of_the_month, Minus(now, Day)),
                ![p].one_week_ago = PyMax(first_of_the_month, Minus(now, Week)),
                ![p].four_weeks_ago = PyMax(first_of_the_month, Minus(now, FourWeeks)),
                ![p].one_month_ago = PyMax(first_of_the_month, Minus(now, ThirtyDays)),
                ![p].pc = "get_session"]
    /\ UNCHANGED <<tz, args, clock, stats, alt_speed, table, due, nruns, unpruned, parse>>

\* lines 166-178: throttle = False, the client's flag, "with db:" entered
GetSession(p) ==
    /\ run[p].pc = "get_session"
    /\ run' = [run EXCEPT ![p].is_throttled = alt_speed,
                          ![p].throttle = FALSE,
                          ![p].rpcs = Append(@, "get_session"),
                          ![p].db_ctx = 1,
                          ![p].pc = "should_throttle"]
    /\ UNCHANGED <<tz, args, clock, stats, alt_speed, table, due, nruns, unpruned, parse>>

\* the evaluation left as soon as one window has answered True
EvaluateShortCircuit(p) ==
    /\ run[p].pc = "should_throttle"
    /\ LET r == run[p]
           ws == Windows(args, r)
           w == ws[Len(r.calls) + 1]
           res == ShouldThrottle(table, w.ref, r.current_data_usage, w.limit)
           call == [ref |-> w.ref, limit |-> w.limit,
                    latest_before |-> LatestBefore(table, w.ref),
                    past_slice |-> PastSlice(table, w.ref),
                    usage_msg |-> UsageMsg(table, w.ref, r.current_data_usage, w.limit),
                    result |-> res]
       IN  run' = [run EXCEPT
                ![p].calls = Append(@, call),
                ![p].ops = @ \o SelectStatements(table, w.ref, r.db_ctx + 1),
                ![p].throttle = (@ \/ res = "True"),
                ![p].error = IF res = "ValueError" THEN res ELSE @,
                ![p].db_ctx = IF res = "ValueError" THEN 0 ELSE @,
                ![p].pc = IF res = "ValueError" THEN "failed"
                          ELSE IF Len(r.calls) + 1 = Len(ws) \/ res = "True"
                          THEN "set_session"
                          ELSE "should_throttle"]
    /\ UNCHANGED <<tz, args, clock, stats, alt_speed, table, due, nruns, unpruned, parse>>

\* the next "throttle |= should_throttle(...)" of main()
Evaluate(p) ==
    /\ run[p].pc = "should_throttle"
    /\ LET r == run[p]
           ws == Windows(args, r)
           w == ws[Len(r.calls) + 1]
           res == ShouldThrottle(table, w.ref, r.current_data_usage, w.limit)
           call == [ref |-> w.ref, limit |-> w.limit,
                    latest_before |-> LatestBefore(table, w.ref),
                    past_slice |-> PastSlice(table, w.ref),
                    usage_msg |-> UsageMsg(table, w.ref, r.current_data_usage, w.limit),
                    result |-> res]
       IN  run' = [run EXCEPT
                ![p].calls = Append(@, call),
                ![p].ops = @ \o SelectStatements(table, w.ref, r.db_ctx + 1),
                ![p].throttle = (@ \/ res = "True"),
                ![p].error = IF res = "ValueError" THEN res ELSE @,
                ![p].db_ctx = IF res = "ValueError" THEN 0 ELSE @,
                ![p].pc = IF res = "ValueError" THEN "failed"
                          ELSE IF Len(r.calls) + 1 = Len(ws) THEN "set_session"
                          ELSE "should_throttle"]
    /\ UNCHANGED <<tz, args, clock, stats, alt_speed, table, due, nruns, unpruned, parse>>

\* the decision applied without the branch that switches throttling off
SetSessionEnableOnly(p) ==
    /\ run[p].pc = "set_session"
    /\ LET r == run[p]
       IN  IF r.throttle /\ ~r.is_throttled
           THEN /\ alt_speed' = TRUE
                /\ run' = [run EXCEPT ![p].alt_writes = Append(@, TRUE),
                                      ![p].rpcs = Append(@, "set_session"),
                                      ![p].pc = "save"]
           ELSE /\ alt_speed' = alt_speed
                /\ run' = [run EXCEPT ![p].rpcs = Append(@, "get_session"),
                                      ![p].pc = "save"]
    /\ UNCHANGED <<tz, args, clock, stats, table, due, nruns, unpruned, parse>>

\* the decision taken on is_throttled alone, the flag not read again
SetSessionReadOnce(p) ==
    /\ run[p].pc = "set_session"
    /\ LET r == run[p]
       IN  IF r.throttle /\ ~r.is_throttled
           THEN /\ alt_speed' = TRUE
                /\ run' = [run EXCEPT ![p].alt_writes = Append(@, TRUE),
                                      ![p].rpcs = Append(@, "set_session"),
                                      ![p].pc = "save"]
           ELSE IF r.is_throttled /\ ~r.throttle
           THEN /\ alt_speed' = FALSE
                /\ run' = [run EXCEPT ![p].alt_writes = Append(@, FALSE),
                                      ![p].rpcs = Append(@, "set_session"),
                                      ![p].pc = "save"]
           ELSE /\ alt_speed' = alt_speed
                /\ run' = [run EXCEPT ![p].pc = "save"]
    /\ UNCHANGED <<tz, args, clock, stats, table, due, nruns, unpruned, parse>>

\* lines 198-203: the elif reads the client's flag again
SetSession(p) ==
    /\ run[p].pc = "set_session"
    /\ LET r == run[p]
       IN  IF r.throttle /\ ~r.is_throttled
           THEN /\ alt_speed' = TRUE
                /\ run' = [run EXCEPT ![p].alt_writes = Append(@, TRUE),
                                      ![p].rpcs = Append(@, "set_session"),
                                      ![p].pc = "save"]
           ELSE IF alt_speed /\ ~r.throttle
           THEN /\ alt_speed' = FALSE
                /\ run' = [run EXCEPT ![p].alt_writes = Append(@, FALSE),
                                      ![p].rpcs = @ \o <<"get_session", "set_session">>,
                                      ![p].pc = "save"]
           ELSE /\ alt_speed' = alt_speed
                /\ run' = [run EXCEPT ![p].rpcs = Append(@, "get_session"),
                                      ![p].pc = "save"]
    /\ UNCHANGED <<tz, args, clock, stats, table, due, nruns, unpruned, parse>>

\* the row of run p as it enters a table from which nothing was deleted
Unpruned(tbl, p) == TimeSlice(NextId(tbl), run[p].now, run[p].current_data_usage)

\* the row saved only by a run that throttles
SaveWhenThrottling(p) ==
    /\ run[p].pc = "save"
    /\ LET row == TimeSlice(NextId(table), run[p].now, run[p].current_data_usage)
       IN  IF run[p].throttle
           THEN /\ table' = table \cup {row}
                /\ unpruned' = unpruned \cup {Unpruned(unpruned, p)}
                /\ run' = [run EXCEPT ![p].inserted = Append(@, row),
                                      ![p].ops = Append(@, Statement("insert", run[p].db_ctx)),
                                      ![p].pc = "clear_old_data"]
           ELSE /\ table' = table
                /\ unpruned' = unpruned
                /\ run' = [run EXCEPT ![p].pc = "clear_old_data"]
    /\ UNCHANGED <<tz, args, clock, stats, alt_speed, due, nruns, parse>>

\* the row saved with INSERT OR REPLACE
SaveOrReplace(p) ==
    /\ run[p].pc = "save"
    /\ LET row == TimeSlice(NextId(table), run[p].now, run[p].current_data_usage)
       IN  /\ table' = {r \in table : r.timestamp # row.timestamp} \cup {row}
           /\ unpruned' = unpruned \cup {Unpruned(unpruned, p)}
           /\ run' = [run EXCEPT ![p].inserted = Append(@, row),
                                 ![p].ops = Append(@, Statement("insert", run[p].db_ctx)),
                                 ![p].pc = "clear_old_data"]
    /\ UNCHANGED <<tz, args, clock, stats, alt_speed, due, nruns, parse>>

\* TimeSlice(timestamp=now, data_usage=current_data_usage).save(): an INSERT,
\* rejected by the unique index on timestamp (peewee.IntegrityError)
Save(p) ==
    /\ run[p].pc = "save"
    /\ LET row == TimeSlice(NextId(table), run[p].now, run[p].current_data_usage)
       IN  IF \E r \in table : r.timestamp = row.timestamp
           THEN /\ table' = table
                /\ unpruned' = unpruned
                /\ run' = [run EXCEPT ![p].error = "IntegrityError",
                                      ![p].ops = Append(@, Statement("insert", run[p].db_ctx)),
                                      ![p].db_ctx = 0,
                                      ![p].pc = "failed"]
           ELSE /\ table' = table \cup {row}
                /\ unpruned' = unpruned \cup {Unpruned(unpruned, p)}
                /\ run' = [run EXCEPT ![p].inserted = Append(@, row),
                                      ![p].ops = Append(@, Statement("insert", run[p].db_ctx)),
                                      ![p].pc = "clear_old_data"]
    /\ UNCHANGED <<tz, args, clock, stats, alt_speed, due, nruns, parse>>

\* lines 207-211, and the end of the "with db:" block
ClearOldData(p) ==
    /\ run[p].pc = "clear_old_data"
    /\ IF args.clear_old_data
       THEN /\ table' = DeleteBefore(table, run[p].first_of_the_month)
            /\ run' = [run EXCEPT ![p].deleted = table \ table',
                                  ![p].ops = Append(@, Statement("delete", run[p].db_ctx)),
                                  ![p].db_ctx = 0,
                                  ![p].pc = "done"]
       ELSE /\ table' = table
            /\ run' = [run EXCEPT ![p].db_ctx = 0, ![p].pc = "done"]
    /\ UNCHANGED <<tz, args, clock, stats, alt_speed, due, nruns, unpruned, parse>>

\* the process ends, normally or with the exception
Exit(p) ==
    /\ run[p].pc \in {"done", "failed"}
    /\ run' = [run EXCEPT ![p] = IdleRun]
    /\ UNCHANGED <<tz, args, clock, stats, alt_speed, table, due, nruns, unpruned, parse>>

\* the steps of main() after its start
Steps(p) ==
    \/ ReadNow(p, 1)
    \/ ReadNow(p, 0)
    \/ ReferenceTimes(p)
    \/ GetSession(p)
    \/ Evaluate(p)
    \/ SetSession(p)
    \/ Save(p)
    \/ ClearOldData(p)
    \/ Exit(p)

\* cron starts one run after the other
Next ==
    \/ \E d \in Gaps, x \in Transfers : Elapse(d, x)
    \/ \E d \in Gaps : ResetStats(d)
    \/ MonthTurns(1)
    \/ Start(1)
    \/ Steps(1)

Spec == Init /\ [][Next]_vars

(***************************************************************************)
(* Overlapping runs: nothing in limiter.py keeps a second process from     *)
(* starting while the first is still running.                              *)
(***************************************************************************)
StartOverlapping(p) ==
    /\ run[p].pc = "idle" /\ nruns < MaxRuns
    /\ \E q \in Procs \ {p} : run[q].pc \notin {"idle", "done", "failed"}
    /\ ~ParseArgsFails(args)
    /\ run' = [run EXCEPT ![p] =
                 [IdleRun EXCEPT !.pc = "now", !.table0 = table,
                                 !.rpcs = <<"Client", "session_stats">>,
                                 !.current_data_usage =
                                     stats.downloadedBytes + stats.uploadedBytes]]
    /\ nruns' = nruns + 1
    /\ UNCHANGED <<tz, args, clock, stats, alt_speed, table, due, unpruned, parse>>

InitOverlap ==
    /\ tz = 0
    /\ args \in {l \in Limits : l.daily_limit = None /\ l.weekly_limit = None
                                 /\ l.monthly_limit = 5}
    /\ clock = -4
    /\ stats = [downloadedBytes |-> 0, uploadedBytes |-> 0]
    /\ alt_speed = FALSE
    /\ table = {}
    /\ run = [p \in Procs |-> IdleRun]
    /\ due = FALSE
    /\ nruns = 0
    /\ unpruned = {}
    /\ parse = NoParse

NextOverlap ==
    \/ \E d \in Gaps, x \in Transfers : Elapse(d, x)
    \/ Start(1)
    \/ StartOverlapping(2)
    \/ \E p \in Procs : MonthTurns(p)
    \/ \E p \in Procs : Steps(p)

SpecOverlap == InitOverlap /\ [][NextOverlap]_vars

(***************************************************************************)
(* The client as the program meets it: somebody else switches alt speed    *)
(* while a run is in progress, and a call of the RPC client or the opening *)
(* of the sqlite file raises.  Nothing in main() catches an exception: it  *)
(* leaves the "with db:" block, if entered, and ends the process.          *)
(***************************************************************************)
\* alt speed switched in the client's own interface during a run
AltSpeedToggled ==
    /\ \E p \in Procs : run[p].pc \notin {"idle", "done", "failed"}
    /\ alt_speed' = ~alt_speed
    /\ UNCHANGED <<tz, args, clock, stats, table, run, due, nruns, unpruned, parse>>

\* the run ends with an exception of class err
Raise(r, err) == [r EXCEPT !.pc = "failed", !.error = err, !.db_ctx = 0]

\* lines 153-157: the n-th RPC call of the start raises
StartFails(p, n) ==
    /\ run[p].pc = "idle" /\ due
    /\ ~ParseArgsFails(args)
    /\ run' = [run EXCEPT ![p] =
                 Raise([IdleRun EXCEPT !.table0 = table,
                                       !.rpcs = SubSeq(<<"Client", "session_stats">>, 1, n)],
                       "TransmissionError")]
    /\ due' = FALSE
    /\ nruns' = nruns + 1
    /\ UNCHANGED <<tz, args, clock, stats, alt_speed, table, unpruned, parse>>

\* lines 160-161: the sqlite file cannot be opened
CreateTablesFails(p) ==
    /\ run[p].pc = "now"
    /\ run' = [run EXCEPT ![p] = Raise(@, "OperationalError")]
    /\ UNCHANGED <<tz, args, clock, stats, alt_speed, table, due, nruns, unpruned, parse>>

\* line 176: get_session raises
GetSessionFails(p) ==
    /\ run[p].pc = "get_session"
    /\ run' = [run EXCEPT ![p] =
                 Raise([@ EXCEPT !.rpcs = Append(@, "get_session")],
                       "TransmissionError")]
    /\ UNCHANGED <<tz, args, clock, stats, alt_speed, table, due, nruns, unpruned, parse>>

\* the RPC calls lines 198-203 make on the client's flag as it is
DecisionRpcs(r, flag) ==
    IF r.throttle /\ ~r.is_throttled THEN <<"set_session">>
    ELSE IF flag /\ ~r.throttle THEN <<"get_session", "set_session">>
    ELSE <<"get_session">>

\* the failing call answered with an error that is logged and passed over
SetSessionFailsIgnored(p, k) ==
    /\ run[p].pc = "set_session"
    /\ k \in DOMAIN DecisionRpcs(run[p], alt_speed)
    /\ run' = [run EXCEPT
             ![p].rpcs = @ \o SubSeq(DecisionRpcs(run[p], alt_speed), 1, k),
             ![p].error = "TransmissionError",
             ![p].pc = "save"]
    /\ UNCHANGED <<tz, args, clock, stats, alt_speed, table, due, nruns, unpruned, parse>>

\* lines 198-203: the k-th of the calls raises
SetSessionFails(p, k) ==
    /\ run[p].pc = "set_session"
    /\ k \in DOMAIN DecisionRpcs(run[p], alt_speed)
    /\ run' = [run EXCEPT ![p] =
             Raise([@ EXCEPT !.rpcs =
                        @ \o SubSeq(DecisionRpcs(run[p], alt_speed), 1, k)],
                   "TransmissionError")]
    /\ UNCHANGED <<tz, args, clock, stats, alt_speed, table, due, nruns, unpruned, parse>>

InitClient ==
    /\ tz = 0
    /\ args \in {l \in Limits : l.weekly_limit = None /\ l.monthly_limit = 5
                                 /\ l.daily_limit \in {None, 1}}
    /\ clock = -4
    /\ stats = [downloadedBytes |-> 0, uploadedBytes |-> 0]
    /\ alt_speed \in BOOLEAN
    /\ table = {}
    /\ run = [p \in Procs |-> IdleRun]
    /\ due = FALSE
    /\ nruns = 0
    /\ unpruned = {}
    /\ parse = NoParse

NextClient ==
    \/ \E d \in Gaps, x \in Transfers : Elapse(d, x)
    \/ Start(1)
    \/ Steps(1)
    \/ AltSpeedToggled
    \/ \E n \in {1, 2} : StartFails(1, n)
    \/ CreateTablesFails(1)
    \/ GetSessionFails(1)
    \/ \E k \in {1, 2} : SetSessionFails(1, k)

SpecClient == InitClient /\ [][NextClient]_vars

(***************************************************************************)
(* The long run: cron keeps starting the program (the crontab line of the  *)
(* module docstring), one run after the other, and every run gets to its   *)
(* end.  The client transfers data during the first MaxRuns firings at     *)
(* most; after that time passes with no transfer.  Clock reads have a      *)
(* non-zero microsecond and a limit is given, so that no run ends with an  *)
(* exception.                                                              *)
(***************************************************************************)
\* the last clock value at which cron fires in the model
Horizon == 830

\* hours between two firings of cron in the long run
LiveGaps == {72, 720}

\* the command lines of the long run: a daily or a monthly limit
LiveLimits ==
    {l \in Limits : /\ l.weekly_limit = None
                    /\ (l.daily_limit = 1) # (l.monthly_limit = 5)
                    /\ l.daily_limit # 0}

\* cron fires after d hours in which the client has transferred nothing
Quiet(d) ==
    /\ AllIdle /\ ~due
    /\ clock + d <= Horizon
    /\ clock' = clock + d
    /\ due' = TRUE
    /\ UNCHANGED <<tz, args, stats, alt_speed, table, run, nruns, unpruned, parse>>

\* cron fires after a gap without transfer
CronFires == \E d \in LiveGaps : Quiet(d)

InitLive ==
    /\ tz \in {0, 2}
    /\ args \in LiveLimits
    /\ clock = -4
    /\ stats = [downloadedBytes |-> 0, uploadedBytes |-> 0]
    /\ alt_speed \in BOOLEAN
    /\ table = {}
    /\ run = [p \in Procs |-> IdleRun]
    /\ due = FALSE
    /\ nruns = 0
    /\ unpruned = {}
    /\ parse = NoParse

NextLive ==
    \/ \E d \in LiveGaps, x \in Transfers : Elapse(d, x)
    \/ CronFires
    \/ Start(1)
    \/ ReadNow(1, 1)
    \/ ReferenceTimes(1)
    \/ GetSession(1)
    \/ Evaluate(1)
    \/ SetSession(1)
    \/ Save(1)
    \/ ClearOldData(1)
    \/ Exit(1)

\* WF_vars(Evaluate(1)) written out, with ENABLED <<Evaluate(1)>>_vars
\* replaced by the guard of Evaluate: the action has no other condition and
\* lengthens run[1].calls
EvaluateFair ==
    \/ []<>(run[1].pc # "should_throttle")
    \/ []<><<Evaluate(1)>>_vars

\* cron fires again and again, and a started process runs to its end
Fairness ==
    /\ WF_vars(CronFires)
    /\ WF_vars(Start(1))
    /\ WF_vars(ReadNow(1, 1))
    /\ WF_vars(ReferenceTimes(1))
    /\ WF_vars(GetSession(1))
    /\ EvaluateFair
    /\ WF_vars(SetSession(1))
    /\ WF_vars(Save(1))
    /\ WF_vars(ClearOldData(1))
    /\ WF_vars(Exit(1))

SpecLive == InitLive /\ [][NextLive]_vars /\ Fairness

(***************************************************************************)
(* parse_size on its own: the size strings of a command line.              *)
(***************************************************************************)
Numbers ==
    { <<"0">>, <<"1">>, <<"1", "0">>, <<"5", "0", "0">>, <<"1", ".">>,
      <<".", "5">>, <<"0", ".", "5">>, <<"1", ".", "5">>, <<"2", ".", "5">>,
      <<"5", ".", "5">>, <<"0", ".", "2", "5">>, <<"1", ".", "1">> }

DataLetters == {"b", "B", "k", "K", "m", "M", "g", "G", "t", "T"}

TimeLetters == {"m", "h", "H", "d", "w"}

\* strings parse_size rejects, and two it reads in its own way
OddSizes ==
    { <<"b", "o", "g", "u", "s">>, <<"1", "0">>, <<"1", "0", "h">>,
      <<"1", ".", "5", ".", "2", "g">>, <<"1", "0", "k", "b">>, <<"1", "k", "5">> }

ParseCalls ==
    {[size |-> Append(n, u), metric |-> "DATA"] : n \in Numbers, u \in DataLetters}
    \cup {[size |-> Append(n, u), metric |-> "TIME"] :
             n \in {<<"1">>, <<"1", "0">>, <<"5", "0", "0">>}, u \in TimeLetters}
    \cup {[size |-> z, metric |-> "DATA"] : z \in OddSizes}
    \cup {[size |-> <<"1", "g">>, metric |-> "SPEED"]}

InitParse ==
    /\ tz = 0
    /\ args = [daily_limit |-> None, weekly_limit |-> None,
               monthly_limit |-> None, clear_old_data |-> FALSE]
    /\ clock = -4
    /\ stats = [downloadedBytes |-> 0, uploadedBytes |-> 0]
    /\ alt_speed = FALSE
    /\ table = {}
    /\ run = [p \in Procs |-> IdleRun]
    /\ due = FALSE
    /\ nruns = 0
    /\ unpruned = {}
    /\ \E c \in ParseCalls :
          parse = [size |-> c.size, metric |-> c.metric, called |-> FALSE,
                   result |-> <<>>]

ParseSize ==
    /\ ~parse.called /\ parse.size # <<>>
    /\ parse' = [parse EXCEPT !.called = TRUE,
                              !.result = <<parse_size(parse.size, parse.metric)>>]
    /\ UNCHANGED <<tz, args, clock, stats, alt_speed, table, run, due, nruns, unpruned>>

NextParse == ParseSize

SpecParse == InitParse /\ [][NextParse]_vars

(***************************************************************************)
(* Properties.                                                             *)
(***************************************************************************)
\* the run has made all its should_throttle calls
Decided(p) == run[p].pc \in {"set_session", "save", "clear_old_data", "done"}

\* a limit counts as configured when the command line gives a non-zero size
Configured(limit) == limit \notin {None, 0}

\* the (reference, threshold) pairs spec section 4.4 lists for the limits
ListedWindows(p) ==
    LET r == run[p]
    IN  (IF Configured(args.daily_limit)
         THEN {<<r.one_day_ago, args.daily_limit>>,
               <<r.one_week_ago, 7 * args.daily_limit>>,
               <<r.one_month_ago, 30 * args.daily_limit>>}
         ELSE {})
        \cup
        (IF Configured(args.weekly_limit)
         THEN {<<r.one_week_ago, args.weekly_limit>>,
               <<r.four_weeks_ago, 4 * args.weekly_limit>>}
         ELSE {})
        \cup
        (IF Configured(args.monthly_limit)
         THEN {<<r.one_month_ago, args.monthly_limit>>}
         ELSE {})

\* the instant a stored timestamp text denotes, as [t, us]
Denotes(text) ==
    LET n == Len(text)
        off == IF text[n - 1] = 45 THEN -text[n] ELSE text[n]
    IN  [t |-> text[1] - off, us |-> IF n = 5 THEN text[3] ELSE 0]

\* the rows of tbl whose instant is the greatest strictly before ref's
LatestInstantBefore(tbl, ref) ==
    LET older == {r \in tbl : DtLess(Denotes(r.timestamp), ref)}
    IN  {r \in older :
            \A q \in older : ~DtLess(Denotes(r.timestamp), Denotes(q.timestamp))}

\* the rows of tbl with the smallest instant
EarliestInstant(tbl) ==
    {r \in tbl : \A q \in tbl : ~DtLess(Denotes(q.timestamp), Denotes(r.timestamp))}

\* C1: once a run has evaluated its windows, its verdict is true exactly when
\* one of the windows listed for the configured limits is exceeded on the
\* table the run found, and the windows it evaluated are exactly those.
C1_VerdictIsAnyWindow ==
    \A p \in Procs : Decided(p) =>
        /\ run[p].throttle <=>
             \E w \in ListedWindows(p) :
                ShouldThrottle(run[p].table0, w[1],
                               run[p].current_data_usage, w[2]) = "True"
        /\ {<<c.ref, c.limit>> : c \in {run[p].calls[i] : i \in DOMAIN run[p].calls}}
             = ListedWindows(p)

\* a run with all three limits whose verdict is true although only some of
\* its windows are exceeded
C1_Witness ==
    \E p \in Procs :
        /\ run[p].pc = "done" /\ run[p].throttle
        /\ Len(run[p].calls) = 6
        /\ \E i, j \in DOMAIN run[p].calls :
              run[p].calls[i].result = "True" /\ run[p].calls[j].result = "False"

\* C2: the client's flag is written with TRUE when the verdict is throttle and
\* the client was not throttled, with FALSE when the verdict is not-throttle
\* and the client was throttled, and not at all otherwise; from then to the
\* end of the run the client's flag equals the verdict.
C2_DecisionApplied ==
    \A p \in Procs : run[p].pc \in {"save", "clear_old_data", "done"} =>
        LET r == run[p]
        IN  /\ (r.throttle /\ ~r.is_throttled) => r.alt_writes = <<TRUE>>
            /\ (~r.throttle /\ r.is_throttled) => r.alt_writes = <<FALSE>>
            /\ (r.throttle = r.is_throttled) => r.alt_writes = <<>>
            /\ alt_speed = r.throttle

\* a completed run that found the client throttled and switched it off
C2_Witness ==
    \E p \in Procs :
        /\ run[p].pc = "done"
        /\ run[p].is_throttled /\ ~run[p].throttle
        /\ run[p].alt_writes = <<FALSE>>
        /\ run[p].table0 # {}

\* C3: a run inserts nothing before its save step and exactly the one row
\* (now, current_data_usage) in it; a completed run has inserted that row
\* once, whatever its verdict and the client's previous state.
C3_OneInsertPerRun ==
    \A p \in Procs :
        LET r == run[p]
            row == TimeSlice(NextId(r.table0), r.now, r.current_data_usage)
        IN  /\ r.pc \in {"clear_old_data", "done"} => r.inserted = <<row>>
            /\ r.pc \notin {"clear_old_data", "done"} => r.inserted = <<>>
            /\ r.pc = "clear_old_data" =>
                  /\ row \notin r.table0
                  /\ table = r.table0 \cup {row}

\* a completed run whose verdict was not-throttle and which left the client
\* alone has inserted its row
C3_Witness ==
    \E p \in Procs :
        /\ run[p].pc = "done"
        /\ ~run[p].throttle /\ ~run[p].is_throttled
        /\ run[p].table0 # {}
        /\ Len(run[p].inserted) = 1

\* C4: on an empty table should_throttle answers False for every reference
\* time, usage and limit, and a run that found the table empty evaluates every
\* window to False, has verdict not-throttle and never switches throttling on.
C4_EmptyStoreNeverThrottles ==
    /\ \A p \in Procs, cur \in {0, MaxUsage}, lim \in {0, 1} :
          \A ref \in {run[p].first_of_the_month, run[p].one_day_ago, run[p].now} :
              ShouldThrottle({}, ref, cur, lim) = "False"
    /\ \A p \in Procs : run[p].table0 = {} =>
          /\ \A i \in DOMAIN run[p].calls :
                /\ run[p].calls[i].result = "False"
                /\ run[p].calls[i].past_slice = {}
          /\ ~run[p].throttle
          /\ \A i \in DOMAIN run[p].alt_writes : run[p].alt_writes[i] = FALSE

\* a first run on the empty table with usage above one of its limits
C4_Witness ==
    \E p \in Procs :
        /\ run[p].pc = "done" /\ run[p].table0 = {}
        /\ \E i \in DOMAIN run[p].calls :
              run[p].current_data_usage > run[p].calls[i].limit
        /\ ~run[p].is_throttled

\* the run has computed its reference times
HasReferences(p) ==
    run[p].pc \in {"get_session", "should_throttle", "set_session", "save",
                   "clear_old_data", "done"}

\* reference r is the later of the reset boundary and now - hours
ClampedTo(r, boundary, now, hours) ==
    IF now.t - hours > boundary.t \/ (now.t - hours = boundary.t /\ now.us > 0)
    THEN r.t = now.t - hours /\ r.us = now.us
    ELSE r.t = boundary.t /\ r.us = 0

\* C7: first_of_the_month is the start of the local calendar month, each of
\* the four reference times is max(first_of_the_month, now - d) for d = 1, 7,
\* 28 and 30 days, none of them precedes first_of_the_month, and when
\* now - 30d falls before it the reference is first_of_the_month itself.
C7_ReferenceTimesClamped ==
    \A p \in Procs : HasReferences(p) =>
        LET r == run[p]
            boundary == r.first_of_the_month
        IN  /\ boundary.t + tz = StartOfMonth(clock + tz)
            /\ boundary.us = 0
            /\ ClampedTo(r.one_day_ago, boundary, r.now, 24)
            /\ ClampedTo(r.one_week_ago, boundary, r.now, 7 * 24)
            /\ ClampedTo(r.four_weeks_ago, boundary, r.now, 28 * 24)
            /\ ClampedTo(r.one_month_ago, boundary, r.now, 30 * 24)
            /\ \A ref \in {r.one_day_ago, r.one_week_ago, r.four_weeks_ago,
                           r.one_month_ago} : ref.t >= boundary.t
            /\ r.now.t - 30 * 24 < boundary.t => r.one_month_ago = boundary

\* a run late in the month: now - 30d is before the first of the month and
\* clamped, now - 1d is not
C7_Witness ==
    \E p \in Procs :
        /\ run[p].pc = "done"
        /\ run[p].now.t - 30 * 24 < run[p].first_of_the_month.t
        /\ run[p].one_month_ago = run[p].first_of_the_month
        /\ run[p].one_day_ago.t = run[p].now.t - 24
        /\ run[p].one_day_ago.t > run[p].first_of_the_month.t

\* C5: every find_latest_before(t) a run makes returns the row whose instant
\* is the greatest strictly before the instant t, or nothing when no row
\* precedes t.
C5_LatestBeforeByInstant ==
    \A p \in Procs : \A i \in DOMAIN run[p].calls :
        run[p].calls[i].latest_before
            = LatestInstantBefore(run[p].table0, run[p].calls[i].ref)

\* C6: on a non-empty table the baseline of a window is the latest row
\* strictly before the reference time, else the earliest row, and a window
\* that is reported on is reported exceeded exactly when current usage minus
\* the baseline's usage is greater than the threshold.
C6_BaselineAndComparison ==
    \A p \in Procs : \A i \in DOMAIN run[p].calls :
        LET c == run[p].calls[i]
            tbl == run[p].table0
            baseline == IF LatestInstantBefore(tbl, c.ref) # {}
                        THEN LatestInstantBefore(tbl, c.ref)
                        ELSE EarliestInstant(tbl)
        IN  tbl # {} =>
              /\ c.past_slice = baseline
              /\ c.result # "ValueError" =>
                    \A b \in baseline :
                        c.result = "True"
                            <=> run[p].current_data_usage - b.data_usage > c.limit

\* C8: clearing old data removes no row that a window of the same run used as
\* its baseline.
C8_PruneKeepsBaselines ==
    \A p \in Procs : run[p].pc = "done" =>
        \A i \in DOMAIN run[p].calls :
            run[p].calls[i].past_slice \cap run[p].deleted = {}

\* C9: a completed run leaves every row it found unchanged, removes rows only
\* when clearing is enabled and then only rows whose instant is strictly
\* before first_of_the_month; with clearing disabled the table after the run
\* is the table before it plus the new row.
C9_OnlyOlderRowsRemoved ==
    \A p \in Procs : run[p].pc = "done" =>
        LET r == run[p]
        IN  /\ table = (r.table0 \cup {r.inserted[1]}) \ r.deleted
            /\ ~args.clear_old_data => r.deleted = {}
            /\ \A row \in r.deleted :
                  DtLess(Denotes(row.timestamp), r.first_of_the_month)

UniqueTimestamps ==
    \A r1, r2 \in table : r1.timestamp = r2.timestamp => r1 = r2

\* a run leaves its save step while a row with its timestamp is in the table
DuplicateSave(p) ==
    /\ run[p].pc = "save" /\ run'[p].pc # "save"
    /\ \E r \in table : r.timestamp = IsoFormat(run[p].now)

\* C10: no two rows of the table ever have the same timestamp, also when runs
\* overlap; a save whose timestamp is already in the table changes nothing in
\* the table and ends the run with IntegrityError.
C10_UniqueTimestamps ==
    /\ []UniqueTimestamps
    /\ [][\A p \in Procs : DuplicateSave(p) =>
             /\ table' = table
             /\ run'[p].pc = "failed"
             /\ run'[p].error = "IntegrityError"
             /\ run'[p].inserted = <<>>]_vars

\* a run that failed at its save because an overlapping run had stored a row
\* with the same timestamp
C10_Witness ==
    \E p \in Procs :
        /\ run[p].pc = "failed" /\ run[p].error = "IntegrityError"
        /\ \E r \in table \ run[p].table0 : r.timestamp = IsoFormat(run[p].now)

\* C11: every statement a run executes on the store (the selects of the
\* window evaluations, the insert, the delete) is executed on the database
\* object main() opened, inside the transaction of the run's "with db:"
\* block, and the block has been left when the run has ended, normally or
\* with an error.
C11_OneTransactionPerRun ==
    \A p \in Procs :
        /\ \A i \in DOMAIN run[p].ops :
              /\ run[p].ops[i].database = MainDb
              /\ run[p].ops[i].in_transaction
        /\ run[p].pc \in {"idle", "done", "failed"} => run[p].db_ctx = 0

\* the run has taken its decision on the client's flag
Applied(p) == run[p].pc \in {"save", "clear_old_data", "done"}

\* C12: the value of the client's flag read before the evaluation decides
\* both writes of a run, also when the flag is changed from outside during
\* the run: TRUE is written exactly when the verdict is throttle and that
\* value was false, FALSE exactly when the verdict is not-throttle and that
\* value was true.
C12_SingleFlagValue ==
    \A p \in Procs : Applied(p) =>
        LET r == run[p]
        IN  /\ r.alt_writes = <<TRUE>> <=> (r.throttle /\ ~r.is_throttled)
            /\ r.alt_writes = <<FALSE>> <=> (~r.throttle /\ r.is_throttled)

\* the step in which run p applies its decision
Applies(p) == run[p].pc = "set_session" /\ run'[p].pc = "save"

\* C12 as amended: now and current_data_usage are read once and never change
\* during the run; the flag is read once before the evaluation, and that
\* value decides the enabling write; when the run does not enable, it reads
\* the flag a second time and writes FALSE exactly when this second value is
\* true and the verdict is not-throttle.
C12_FlagReadAgain ==
    /\ [](\A p \in Procs : Applied(p) =>
            LET r == run[p]
            IN  /\ r.alt_writes = <<TRUE>> <=> (r.throttle /\ ~r.is_throttled)
                /\ r.alt_writes = <<FALSE>> => ~r.throttle
                /\ r.rpcs \in
                     IF r.throttle /\ ~r.is_throttled
                     THEN {<<"Client", "session_stats", "get_session", "set_session">>}
                     ELSE {<<"Client", "session_stats", "get_session", "get_session">>,
                           <<"Client", "session_stats", "get_session", "get_session",
                             "set_session">>})
    /\ [][\A p \in Procs :
            /\ Applies(p) /\ ~(run[p].throttle /\ ~run[p].is_throttled) =>
                  /\ run'[p].alt_writes = <<FALSE>> <=> (alt_speed /\ ~run[p].throttle)
                  /\ run'[p].alt_writes = <<>> <=> ~(alt_speed /\ ~run[p].throttle)
                  /\ alt_speed' = (alt_speed /\ run[p].throttle)
            /\ (run[p].pc \notin {"idle", "now"} /\ run'[p].pc # "idle") =>
                  /\ run'[p].now = run[p].now
                  /\ run'[p].current_data_usage = run[p].current_data_usage
            /\ (run[p].pc \notin {"idle", "now", "first_of_the_month", "get_session"}
                    /\ run'[p].pc # "idle") =>
                  run'[p].is_throttled = run[p].is_throttled]_vars

\* a completed run that found the client unthrottled, decided not to
\* throttle and still wrote FALSE: the flag was switched on during the run
C12_Witness ==
    \E p \in Procs :
        /\ run[p].pc = "done"
        /\ ~run[p].is_throttled /\ ~run[p].throttle
        /\ run[p].alt_writes = <<FALSE>>
        /\ run[p].table0 # {}

\* the exceptions of the RPC client and of the opening of the store
CollaboratorErrors == {"TransmissionError", "OperationalError"}

\* the RPC calls of a run that meets no error, in their order
NormalRpcs ==
    {<<"Client", "session_stats", "get_session", "set_session">>,
     <<"Client", "session_stats", "get_session", "get_session">>,
     <<"Client", "session_stats", "get_session", "get_session", "set_session">>}

IsPrefix(a, b) == Len(a) <= Len(b) /\ a = SubSeq(b, 1, Len(a))

\* C13: a run in which an RPC call or the opening of the store has failed
\* has ended with that error at once: the failed call was made once, the
\* calls before it are those of a normal run, nothing was written to the
\* client, no row was inserted or deleted, the "with db:" block is left, and
\* from then on the run takes no step but its exit.
C13_FailFast ==
    /\ [](\A p \in Procs : run[p].error \in CollaboratorErrors =>
            LET r == run[p]
            IN  /\ r.pc = "failed"
                /\ \E n \in NormalRpcs : IsPrefix(r.rpcs, n)
                /\ r.alt_writes = <<>>
                /\ r.inserted = <<>> /\ r.deleted = {}
                /\ \A i \in DOMAIN r.ops : r.ops[i].op \notin {"insert", "delete"}
                /\ r.db_ctx = 0
                /\ table = r.table0)
    /\ [][\A p \in Procs : run[p].error \in CollaboratorErrors =>
            /\ run'[p] \in {run[p], IdleRun}
            /\ table' = table]_vars

\* a run on a non-empty table that evaluated its windows and then failed in
\* the calls that apply the decision
C13_Witness ==
    \E p \in Procs :
        /\ run[p].pc = "failed" /\ run[p].error = "TransmissionError"
        /\ Len(run[p].calls) > 0
        /\ run[p].table0 # {}
        /\ Len(run[p].rpcs) = 5

\* none of the three limits is configured
NoLimit ==
    ~(Configured(args.daily_limit) \/ Configured(args.weekly_limit)
        \/ Configured(args.monthly_limit))

\* C14: with no limit configured every run ends with ValueError before it
\* has made an RPC call, written the client's flag or executed a statement
\* on the store, and the flag and the table never change; a run ends this
\* way only when no limit is configured.
C14_ConfigurationError ==
    /\ [](NoLimit => \A p \in Procs :
            /\ run[p].pc \in {"idle", "failed"}
            /\ run[p].pc = "failed" => run[p].error = "ValueError"
            /\ run[p].rpcs = <<>>
            /\ run[p].alt_writes = <<>>
            /\ run[p].calls = <<>> /\ run[p].ops = <<>>
            /\ run[p].inserted = <<>> /\ run[p].deleted = {}
            /\ table = {})
    /\ [](\A p \in Procs : (run[p].pc = "failed" /\ run[p].rpcs = <<>>) => NoLimit)
    /\ [][NoLimit => alt_speed' = alt_speed /\ table' = table]_vars

\* a second run has failed on a command line whose only limit is a size of
\* zero, the client throttled all the while
C14_Witness ==
    \E p \in Procs :
        /\ run[p].pc = "failed" /\ run[p].error = "ValueError"
        /\ args.daily_limit = 0 /\ args.monthly_limit = None
        /\ nruns = 2 /\ alt_speed

\* C15: a window whose baseline row has a greater usage than the current
\* usage is evaluated without error: the difference is printed as it is,
\* negative, and the window is reported as not exceeded.
C15_NegativeDelta ==
    \A p \in Procs : \A i \in DOMAIN run[p].calls :
        LET c == run[p].calls[i]
        IN  \A b \in c.past_slice :
                run[p].current_data_usage < b.data_usage =>
                    /\ c.result = "False"
                    /\ Len(c.usage_msg) = 3
                    /\ c.usage_msg[1].amount = run[p].current_data_usage - b.data_usage
                    /\ c.usage_msg[2].amount = 0

\* a size string that is a decimal number followed by one data unit letter
WellFormed(size) ==
    /\ Len(size) >= 2
    /\ size[Len(size)] \in DataLetters
    /\ LET number == SubSeq(size, 1, Len(size) - 1)
       IN  /\ \A i \in DOMAIN number : IsDigit(number[i]) \/ number[i] = "."
           /\ Cardinality({i \in DOMAIN number : number[i] = "."}) <= 1
           /\ \E i \in DOMAIN number : IsDigit(number[i])

\* the multiplier of a data unit letter: a power of 1024, in either case
DataMultiplier(c) ==
    CASE c \in {"b", "B"} -> <<1>>
      [] c \in {"k", "K"} -> <<1, 0>>
      [] c \in {"m", "M"} -> <<1, 0, 0>>
      [] c \in {"g", "G"} -> <<1, 0, 0, 0>>
      [] c \in {"t", "T"} -> <<1, 0, 0, 0, 0>>

RECURSIVE DigitsLess(_, _)
\* a < b for two numbers with the same count of digits
DigitsLess(a, b) ==
    IF a = <<>> THEN FALSE
    ELSE IF Head(a) # Head(b) THEN Head(a) < Head(b)
    ELSE DigitsLess(Tail(a), Tail(b))

\* a < b for two numbers without leading zeros
BigLess(a, b) == Len(a) < Len(b) \/ (Len(a) = Len(b) /\ DigitsLess(a, b))

\* the call under observation has returned for a well-formed data size
ParsedWellFormed ==
    parse.called /\ parse.metric = "DATA" /\ WellFormed(parse.size)

\* C16: for a decimal number followed by a data unit letter parse_size
\* returns the product of the number and the unit's power of 1024 rounded
\* to the nearest integer.
C16_RoundsToNearest ==
    ParsedWellFormed => parse.result = <<parse_size_round(parse.size, "DATA")>>

\* C16 as amended: parse_size returns the product truncated to an integer,
\* the greatest integer r with r <= number * multiplier, the multiplier
\* being the power of 1024 of the unit letter read in either case.
C16_Truncates ==
    ParsedWellFormed =>
        LET number == Float(SubSeq(parse.size, 1, Len(parse.size) - 1))
            product == Mul(DataMultiplier(parse.size[Len(parse.size)]), number.mant)
            r == parse.result[1].value
            next == Normalize(MulCarry(r, 1, 1))
        IN  /\ parse.result[1].raises = ""
            /\ ~BigLess(product, Mul(r, Pow10(number.dec)))
            /\ BigLess(product, Mul(next, Pow10(number.dec)))

\* "1.5B" parsed: one byte
C16_Witness ==
    /\ parse.size = <<"1", ".", "5", "B">> /\ parse.metric = "DATA"
    /\ parse.called /\ parse.result = <<Returns(<<1>>)>>

\* the windows of the configured limits in the order daily, weekly, monthly,
\* as pairs of reference time and threshold
ExpectedCalls(p) ==
    LET r == run[p]
    IN  (IF Configured(args.daily_limit)
         THEN << <<r.one_day_ago, args.daily_limit>>,
                 <<r.one_week_ago, 7 * args.daily_limit>>,
                 <<r.one_month_ago, 30 * args.daily_limit>> >>
         ELSE <<>>)
        \o (IF Configured(args.weekly_limit)
            THEN << <<r.one_week_ago, args.weekly_limit>>,
                    <<r.four_weeks_ago, 4 * args.weekly_limit>> >>
            ELSE <<>>)
        \o (IF Configured(args.monthly_limit)
            THEN << <<r.one_month_ago, args.monthly_limit>> >>
            ELSE <<>>)

\* the should_throttle calls run p has made so far, as such pairs
CallsMade(p) ==
    [i \in DOMAIN run[p].calls |-> <<run[p].calls[i].ref, run[p].calls[i].limit>>]

\* C17: the calls a run has made are at every moment the first ones of the
\* list of its windows in the order daily, weekly, monthly; a run that has
\* reached its decision has evaluated every window of the list once, 3 per
\* daily, 2 per weekly and 1 per monthly limit, whatever the earlier answers;
\* and a step that evaluates a window leaves the table and the client's flag
\* as they are.
C17_NoShortCircuit ==
    /\ [](\A p \in Procs :
            /\ IsPrefix(CallsMade(p), ExpectedCalls(p))
            /\ Decided(p) =>
                  /\ CallsMade(p) = ExpectedCalls(p)
                  /\ Len(run[p].calls)
                        = (IF Configured(args.daily_limit) THEN 3 ELSE 0)
                          + (IF Configured(args.weekly_limit) THEN 2 ELSE 0)
                          + (IF Configured(args.monthly_limit) THEN 1 ELSE 0))
    /\ [][\A p \in Procs : run[p].pc = "should_throttle" =>
            /\ table' = table /\ alt_speed' = alt_speed
            /\ run'[p].alt_writes = <<>> /\ run'[p].inserted = <<>>
            /\ run'[p].deleted = {}]_vars

\* a completed run with all three limits whose first window answered True
\* and whose last window, evaluated all the same, answered False
C17_Witness ==
    \E p \in Procs :
        /\ run[p].pc = "done"
        /\ Len(run[p].calls) = 6
        /\ run[p].calls[1].result = "True"
        /\ run[p].calls[6].result = "False"

\* every timestamp stored so far has a fraction, so that no run has ended
\* in strptime and the runs are the same with and without clearing
AllParsed == \A r \in unpruned : ~StrptimeFails(r.timestamp)

\* the newest row stored so far is still in the table
NewestKept ==
    \A r \in unpruned :
        (\A q \in unpruned : ~DtLess(Denotes(r.timestamp), Denotes(q.timestamp)))
            => \E t \in table : t.timestamp = r.timestamp

\* C18: the verdict of a run is the verdict the same windows give on the
\* table the earlier runs would have left had none of them cleared old data
\* (stated for runs before which no run ended in strptime and the run
\* before kept its own row).
C18_PruningKeepsVerdicts ==
    \A p \in Procs : (run[p].pc = "set_session" /\ AllParsed /\ NewestKept) =>
        (run[p].throttle <=>
            \E i \in DOMAIN run[p].calls :
                ShouldThrottle(unpruned, run[p].calls[i].ref,
                               run[p].current_data_usage,
                               run[p].calls[i].limit) = "True")

\* first_of_the_month of run p is the start of the local month of its now
SameMonth(p) ==
    run[p].first_of_the_month.t + tz = StartOfMonth(run[p].now.t + tz)

\* C19: when a run has completed, the row it inserted is in the table, which
\* so is not empty (stated for runs during which the month did not change
\* between the two readings of the clock).
C19_OwnSampleKept ==
    \A p \in Procs : (run[p].pc = "done" /\ SameMonth(p)) =>
        /\ run[p].inserted[1] \in table
        /\ table # {}

\* C20: the client transfers nothing from the MaxRuns-th firing on, runs keep
\* being started and complete; then from some run on the client's alt speed
\* is off and stays off: a run has computed not-throttle and disabled it, and
\* no later run enables it again.
C20_EventuallyReleased == <>[](~alt_speed)

\* a run after the transfers have stopped finds alt speed on, computes
\* not-throttle from a baseline with the present usage and switches it off
C20_Witness ==
    /\ nruns > MaxRuns
    /\ run[1].pc = "done"
    /\ run[1].is_throttled /\ ~run[1].throttle
    /\ run[1].alt_writes = <<FALSE>>
    /\ ~alt_speed
    /\ run[1].current_data_usage > 0
    /\ \E i \in DOMAIN run[1].calls :
           \E r \in run[1].calls[i].past_slice :
               r.data_usage = run[1].current_data_usage
    /\ \E r \in run[1].table0 :
           run[1].current_data_usage - r.data_usage > 30

====
